---- MODULE Spec2Model ----
(***************************************************************************)
(* Model of agent.py: a command line tool that creates, attaches to and    *)
(* destroys git worktrees bound to branches.  The git repository is the    *)
(* only state the tool has; every invocation of the tool is one action.    *)
(***************************************************************************)
EXTENDS Integers, Sequences, FiniteSets, TLC

\* ------------------------------------------------------------------ bounds
\* Number of events outside the tool during a run: the git commands the operator
\* runs by hand between invocations (commit, merge, push, edit, cd, checkout,
\* branch) and the backend commands that fail.  The tool's invocations are not
\* bounded.
MaxEvents == 2

\* How deep below the repository's parent directory a new worktree may be placed:
\* a worktree created from inside a linked worktree lies one level deeper than it.
MaxNesting == 2

\* Branch names the operator uses; main is the repository's first branch.
Names == {"main", "fx", "fy"}

\* The names create is invoked with.
CreateNames == Names \ {"main"}

\* The branch names origin can hold: the operator's, and one with a slash in it
\* that somebody else pushed.
RemoteNames == Names \cup {"rel/fy"}

\* A branch name split at its slashes.
Components(n) == IF n = "rel/fy" THEN <<"rel", "fy">> ELSE <<n>>

\* Commit ids: at most one commit per event.
Commits == 1..MaxEvents

\* Paths are sequences of directory names.
RepoRoot == <<"repo">>

\* Python's None / the empty string for a path.
None == <<>>

\* The fixed prefix of a lineage record (src line 359).
Prefix == "Parent branch: "

\* Backend commands whose failure an invocation can meet.
CreateFaults == {"none", "checkout_b", "config", "checkout_back", "worktree_add"}

DestroyFaults == {"none", "status", "merged", "worktree_remove", "branch_delete"}

VARIABLES
    branches,   \* local branches (refs/heads/*)
    hist,       \* hist[b]: the commits reachable from b's tip
    remote,     \* remote[n]: <<>> when origin has no head n, else <<its history>>
    upstream,   \* branches with an upstream (tracking) configuration
    desc,       \* desc[b]: <<>> when branch.b.description is unset, else <<text>>
    mainHead,   \* the branch checked out in the main repository
    linked,     \* the linked worktrees, [path, branch], as git lists them: by path
    dirty,      \* the checkouts (paths) whose working tree has uncommitted changes
    cwd,        \* the checkout the operator's shell is in
    events,     \* the events outside the tool so far
    last        \* what the last invocation did

vars == <<branches, hist, remote, upstream, desc, mainHead, linked, dirty, cwd, events, last>>

gitvars == <<branches, hist, remote, upstream, desc, mainHead, linked, dirty>>

\* ------------------------------------------------------------ path helpers
Dirname(p) == SubSeq(p, 1, Len(p) - 1)

Basename(p) == p[Len(p)]

Join(p, n) == Append(p, n)

IsPathPrefix(r, p) == Len(r) <= Len(p) /\ SubSeq(p, 1, Len(r)) = r

\* The directory names of the model, in alphabetical order.
DirOrder ==
    <<"fx", "fx-worktrees", "fy", "fy-worktrees", "main", "main-worktrees",
      "repo", "repo-worktrees">>

DirRank(n) == CHOOSE i \in 1..Len(DirOrder) : DirOrder[i] = n

\* p sorts before q.
RECURSIVE PathLess(_, _)
PathLess(p, q) ==
    IF q = <<>> THEN FALSE
    ELSE IF p = <<>> THEN TRUE
    ELSE IF Head(p) = Head(q) THEN PathLess(Tail(p), Tail(q))
    ELSE DirRank(Head(p)) < DirRank(Head(q))

\* ------------------------------------------------------------- git queries
Range(s) == {s[i] : i \in 1..Len(s)}

LinkedPaths == {w.path : w \in Range(linked)}

CheckoutRoots == {RepoRoot} \cup LinkedPaths

\* The branch checked out at a checkout.
HeadOf(path) ==
    IF path = RepoRoot THEN mainHead
    ELSE (CHOOSE w \in Range(linked) : w.path = path).branch

CheckedOut == {HeadOf(p) : p \in CheckoutRoots}

\* git worktree list --porcelain: the main working tree first, then the linked.
RECURSIVE LinkedLines(_)
LinkedLines(ws) ==
    IF ws = <<>> THEN <<>>
    ELSE << [k |-> "worktree", v |-> Head(ws).path],
            [k |-> "HEAD", v |-> hist[Head(ws).branch]],
            [k |-> "branch", v |-> <<"refs/heads/", Head(ws).branch>>],
            [k |-> "", v |-> <<>>] >> \o LinkedLines(Tail(ws))

WorktreeListPorcelain ==
    << [k |-> "worktree", v |-> RepoRoot],
       [k |-> "HEAD", v |-> hist[mainHead]],
       [k |-> "branch", v |-> <<"refs/heads/", mainHead>>],
       [k |-> "", v |-> <<>>] >> \o LinkedLines(linked)

\* git rev-parse --show-toplevel, run in dir: the top of the working tree dir is in.
ShowToplevel(dir) ==
    CHOOSE r \in CheckoutRoots :
        /\ IsPathPrefix(r, dir)
        /\ \A q \in CheckoutRoots : IsPathPrefix(q, dir) => Len(q) <= Len(r)

get_git_root(dir) == ShowToplevel(dir)

\* The loop of get_worktree_path over the porcelain lines.
RECURSIVE ScanWorktreePath(_, _, _, _)
ScanWorktreePath(lines, current_worktree, branch_name, git_root) ==
    IF lines = <<>> THEN None
    ELSE LET line == Head(lines) IN
         IF line.k = "worktree"
         THEN ScanWorktreePath(Tail(lines), line.v, branch_name, git_root)
         ELSE IF line.k = "branch" /\ current_worktree # None
         THEN IF line.v = <<"refs/heads/", branch_name>> /\ current_worktree # git_root
              THEN current_worktree
              ELSE ScanWorktreePath(Tail(lines), None, branch_name, git_root)
         ELSE ScanWorktreePath(Tail(lines), current_worktree, branch_name, git_root)

get_worktree_path(branch_name, dir) ==
    ScanWorktreePath(WorktreeListPorcelain, None, branch_name, get_git_root(dir))

\* The loop of get_all_worktrees over the porcelain lines.
RECURSIVE ScanAllWorktrees(_, _, _)
ScanAllWorktrees(lines, current_path, git_root) ==
    IF lines = <<>> THEN <<>>
    ELSE LET line == Head(lines) IN
         IF line.k = "worktree"
         THEN ScanAllWorktrees(Tail(lines), line.v, git_root)
         ELSE IF line.k = "branch" /\ current_path # None
         THEN (IF line.v[1] = "refs/heads/" /\ current_path # git_root
               THEN << <<line.v[2], current_path>> >>
               ELSE <<>>) \o ScanAllWorktrees(Tail(lines), None, git_root)
         ELSE ScanAllWorktrees(Tail(lines), current_path, git_root)

get_all_worktrees(dir) ==
    ScanAllWorktrees(WorktreeListPorcelain, None, get_git_root(dir))

branch_exists(branch_name) == branch_name \in branches

get_current_branch(dir) == HeadOf(ShowToplevel(dir))

\* ----------------------------------------------------------- lineage store
\* Texts are sequences of tokens: the prefix, a branch name, a blank, a word.
RECURSIVE Strip(_)
Strip(text) ==
    IF text = <<>> THEN <<>>
    ELSE IF Head(text) = " " THEN Strip(Tail(text))
    ELSE IF text[Len(text)] = " " THEN Strip(SubSeq(text, 1, Len(text) - 1))
    ELSE IF text[Len(text)] = Prefix
         THEN SubSeq(text, 1, Len(text) - 1) \o <<"Parent branch:">>
    ELSE text

RECURSIVE Concat(_)
Concat(text) == IF text = <<>> THEN "" ELSE Head(text) \o Concat(Tail(text))

\* A writer whose prefix lacks the blank the reader looks for.
ParentDescriptionNoBlank(parent_branch) == <<"Parent branch:", parent_branch>>

\* The description set_branch_parent writes.
ParentDescription(parent_branch) == <<Prefix, parent_branch>>

\* git config branch.<b>.description: returncode and stdout.
GitConfigGet(d) ==
    IF d = <<>> THEN [returncode |-> 1, stdout |-> <<>>]
    ELSE [returncode |-> 0, stdout |-> d[1]]

\* get_branch_parent on a description field: <<>> for None, else <<name>>.
ParseParent(d) ==
    LET result == GitConfigGet(d)
        description == Strip(result.stdout)
    IN  IF result.returncode = 0 /\ description # <<>>
        THEN IF Head(description) = Prefix
             THEN << Concat(Strip(SelectSeq(description, LAMBDA t : t # Prefix))) >>
             ELSE <<>>
        ELSE <<>>

get_branch_parent(branch_name) == ParseParent(desc[branch_name])

\* Python's "not x" on an optional string.
Falsy(opt) == opt = <<>> \/ opt[1] = ""

\* --------------------------------------------------------- destroy's checks
MainCandidates == <<"main", "master", "develop">>

\* The order in which git prints branch names.
NameOrder == <<"develop", "fx", "fy", "main", "master", "rel/fy">>

\* A line of git branch -r: the remote-tracking name of origin's branch n.
RemoteTrackingName(n) == <<"origin">> \o Components(n)

\* The remote branches, as git branch -r | grep -v HEAD prints them.
RemoteBranchLines ==
    SelectSeq(NameOrder, LAMBDA n : n \in RemoteNames /\ remote[n] # <<>>)

\* git branch -r | grep -v HEAD | head -1, then split("/")[-1].
FirstRemoteBranch ==
    LET have == RemoteBranchLines
        line == RemoteTrackingName(Head(have))
    IN  IF have = <<>> THEN <<>> ELSE << line[Len(line)] >>

get_main_branch ==
    LET have == SelectSeq(MainCandidates, LAMBDA n : branch_exists(n))
    IN  IF have # <<>> THEN <<Head(have)>> ELSE FirstRemoteBranch

\* git branch --merged target, run in the checkout at path: the marked names.
MergedLines(target_branch, path) ==
    IF target_branch \notin branches THEN {}
    ELSE { [mark |-> IF x = HeadOf(path) THEN "*"
                     ELSE IF x \in CheckedOut THEN "+" ELSE " ",
            name |-> x] :
           x \in {y \in branches : hist[y] \subseteq hist[target_branch]} }

is_branch_merged(branch_name, target_branch, dir, failed) ==
    LET worktree_path == get_worktree_path(branch_name, dir)
        merged_branches == IF failed THEN {} ELSE MergedLines(target_branch, worktree_path)
    IN  \E l \in merged_branches : l.mark # "+" /\ l.name = branch_name

\* git ls-remote --heads origin <pattern>: the heads whose name is the pattern or
\* ends with "/" and the pattern, in the order of their names.
LsRemoteHeads(pattern) ==
    SelectSeq(NameOrder, LAMBDA n : /\ n \in RemoteNames
                                    /\ remote[n] # <<>>
                                    /\ Components(n)[Len(Components(n))] = pattern)

\* output.split()[0]: the hash on the first line, None without output.
get_remote_branch_tip(branch_name) ==
    LET output == LsRemoteHeads(branch_name)
    IN  IF output = <<>> THEN <<>> ELSE remote[Head(output)]

is_branch_tip_pushed(branch_name) ==
    LET local_tip == IF branch_name \in branches THEN <<hist[branch_name]>> ELSE <<>>
        remote_tip == get_remote_branch_tip(branch_name)
    IN  /\ local_tip # <<>>
        /\ remote_tip # <<>>
        /\ local_tip = remote_tip

\* git status --porcelain prints something; a failed command prints nothing.
has_unstaged_changes(path, failed) == ~failed /\ path \in dirty

\* ---------------------------------------------------------- git mutations
\* The repository as a record, so that a command maps a repository to the next.
Repo ==
    [branches |-> branches, hist |-> hist, remote |-> remote, upstream |-> upstream,
     desc |-> desc, mainHead |-> mainHead, linked |-> linked, dirty |-> dirty]

RepoHeadOf(s, path) ==
    IF path = RepoRoot THEN s.mainHead
    ELSE (CHOOSE w \in Range(s.linked) : w.path = path).branch

RepoCheckedOut(s) == {s.mainHead} \cup {w.branch : w \in Range(s.linked)}

\* Switch the checkout at path to branch b.
SwitchTo(s, path, b) ==
    IF path = RepoRoot THEN [s EXCEPT !.mainHead = b]
    ELSE [s EXCEPT !.linked =
            [i \in 1..Len(s.linked) |->
                IF s.linked[i].path = path
                THEN [path |-> path, branch |-> b] ELSE s.linked[i]]]

\* git checkout -b b, run in the checkout at path.
GitCheckoutNew(s, path, b) ==
    SwitchTo([s EXCEPT !.branches = @ \cup {b},
                       !.hist[b] = s.hist[RepoHeadOf(s, path)]], path, b)

\* git config branch.<b>.description '<text>'
GitConfigSet(s, b, text) == [s EXCEPT !.desc[b] = <<text>>]

set_branch_parent(s, branch_name, parent_branch) ==
    GitConfigSet(s, branch_name, ParentDescription(parent_branch))

\* A git worktree add that takes a branch although it is checked out (--force).
CanWorktreeAddForced(s, path, b) ==
    /\ b \in s.branches
    /\ path \notin ({RepoRoot} \cup {w.path : w \in Range(s.linked)})

\* git worktree add refuses a branch that is checked out and a path in use.
CanWorktreeAdd(s, path, b) ==
    /\ b \in s.branches
    /\ b \notin RepoCheckedOut(s)
    /\ path \notin ({RepoRoot} \cup {w.path : w \in Range(s.linked)})

GitWorktreeAdd(s, path, b) ==
    [s EXCEPT !.linked =
        SelectSeq(@, LAMBDA w : PathLess(w.path, path))
        \o << [path |-> path, branch |-> b] >>
        \o SelectSeq(@, LAMBDA w : ~PathLess(w.path, path))]

\* git worktree remove --force refuses the main working tree.
CanWorktreeRemove(s, path) == path \in {w.path : w \in Range(s.linked)}

GitWorktreeRemove(s, path) ==
    [s EXCEPT !.linked = SelectSeq(@, LAMBDA w : w.path # path),
              !.dirty = @ \ {path}]

\* git branch -d compares with the upstream if one is configured, else with the
\* HEAD of the checkout it runs in; -D compares with nothing.  Neither deletes a
\* branch that is checked out.
FullyMerged(s, b, dir) ==
    IF b \in s.upstream /\ s.remote[b] # <<>>
    THEN s.hist[b] \subseteq s.remote[b][1]
    ELSE s.hist[b] \subseteq s.hist[RepoHeadOf(s, dir)]

CanBranchDelete(s, b, dir, forced) ==
    /\ b \in s.branches
    /\ b \notin RepoCheckedOut(s)
    /\ (forced \/ FullyMerged(s, b, dir))

\* A deletion that also drops the lineage records naming the branch as parent.
GitBranchDeleteCascade(s, b) ==
    [s EXCEPT !.branches = @ \ {b},
              !.hist[b] = {},
              !.desc = [c \in DOMAIN @ |->
                          IF c = b \/ @[c] = <<ParentDescription(b)>> THEN <<>> ELSE @[c]],
              !.upstream = @ \ {b}]

\* Deleting a branch removes its ref and its branch.<b>.* configuration.
GitBranchDelete(s, b) ==
    [s EXCEPT !.branches = @ \ {b},
              !.hist[b] = {},
              !.desc[b] = <<>>,
              !.upstream = @ \ {b}]

\* ------------------------------------------------------------- invocations
Outcome(op, b, force, fault, exit, err) ==
    [op |-> op, branch |-> b, force |-> force, fault |-> fault, exit |-> exit,
     err |-> err, at |-> cwd, prompted |-> FALSE, path |-> None, del |-> "none",
     parent |-> <<>>, created |-> FALSE, menu |-> "none", index |-> -1,
     confirm |-> "none"]

\* The planned directory of create_worktree (src lines 256-260).
PlannedDir(git_root, branch_name) ==
    LET parent_dir == Dirname(git_root)
        repo_name == Basename(git_root)
        worktrees_container == Join(parent_dir, repo_name \o "-worktrees")
    IN  Join(worktrees_container, branch_name)

\* A decline that ends like an error: sys.exit(1).
CancelOutcomeAsError(out) ==
    [out EXCEPT !.prompted = TRUE, !.err = "Cancelled", !.exit = 1]

\* The operator declines to attach: "Operation cancelled." and sys.exit(0).
\* out carries the exit status 0.
CancelOutcome(out) == [out EXCEPT !.prompted = TRUE, !.err = "Cancelled"]

\* A creation step that runs for every branch without a worktree.
NeedsBranchAlways(branch_name) == TRUE

\* "if not branch_exists(branch_name)": the branch has to be created first.
NeedsBranch(branch_name) == ~branch_exists(branch_name)

\* create_worktree: the repository, the shell's directory and the outcome it ends
\* with.  hit: the injected fault is one this run meets.
CreateRun(b, answer, fault) ==
    LET git_root == get_git_root(cwd)
        parent_branch == get_current_branch(cwd)
        worktree_path == get_worktree_path(b, cwd)
        out == Outcome("create", b, FALSE, fault, 0, "none")
        need == NeedsBranch(b)
        s1 == GitCheckoutNew(Repo, git_root, b)
        s2 == set_branch_parent(s1, b, parent_branch)
        s3 == IF need THEN SwitchTo(s2, git_root, parent_branch) ELSE Repo
        worktree_dir == PlannedDir(git_root, b)
        s4 == GitWorktreeAdd(s3, worktree_dir, b)
        fail == [out EXCEPT !.exit = 1, !.err = "Backend"]
    IN  IF worktree_path # None
        THEN IF answer # "y"
             THEN [hit |-> fault = "none", repo |-> Repo, cwd |-> cwd,
                   out |-> CancelOutcome(out)]
             ELSE [hit |-> fault = "none", repo |-> Repo, cwd |-> worktree_path,
                   out |-> [out EXCEPT !.prompted = TRUE, !.path = worktree_path]]
        ELSE IF need /\ fault = "checkout_b"
        THEN [hit |-> TRUE, repo |-> Repo, cwd |-> cwd, out |-> fail]
        ELSE IF need /\ fault = "config"
        THEN [hit |-> TRUE, repo |-> s1, cwd |-> cwd,
              out |-> [fail EXCEPT !.created = TRUE]]
        ELSE IF need /\ fault = "checkout_back"
        THEN [hit |-> TRUE, repo |-> s2, cwd |-> cwd,
              out |-> [fail EXCEPT !.created = TRUE]]
        ELSE IF fault = "worktree_add" \/ ~CanWorktreeAdd(s3, worktree_dir, b)
        THEN [hit |-> fault \in {"none", "worktree_add"}, repo |-> s3,
              cwd |-> cwd, out |-> [fail EXCEPT !.created = need]]
        ELSE [hit |-> fault = "none" /\ Len(worktree_dir) <= Len(RepoRoot) + MaxNesting,
              repo |-> s4, cwd |-> worktree_dir,
              out |-> [out EXCEPT !.created = need, !.path = worktree_dir]]

\* attach_worktree
AttachRun(b) ==
    LET worktree_path == get_worktree_path(b, cwd)
        out == Outcome("attach", b, FALSE, "none", 0, "none")
    IN  IF worktree_path = None
        THEN [repo |-> Repo, cwd |-> cwd,
              out |-> [out EXCEPT !.exit = 1, !.err = "NotFound"]]
        ELSE [repo |-> Repo, cwd |-> worktree_path,
              out |-> [out EXCEPT !.path = worktree_path]]

\* The branch deletion destroy_worktree asks for (src lines 528-531).
DeleteForced(force) == force

\* A removal that takes the branch along with the worktree.
RemoveWorktreeAndBranch(s, worktree_path) ==
    GitBranchDelete(GitWorktreeRemove(s, worktree_path), RepoHeadOf(s, worktree_path))

\* The two mutations of destroy_worktree, in their order.
RemoveWorktreeStep(s, worktree_path) == GitWorktreeRemove(s, worktree_path)

\* A destroy that leaves the branch behind.
DeleteBranchStepSkipped(s, branch_name) == s

DeleteBranchStep(s, branch_name) == GitBranchDelete(s, branch_name)

\* The parent destroy_worktree works with (src lines 485-498): <<>> when unknown.
resolve_parent(branch_name) ==
    LET parent_branch == get_branch_parent(branch_name)
    IN  IF Falsy(parent_branch) THEN get_main_branch ELSE parent_branch

\* destroy_worktree
DestroyRun(b, force, fault) ==
    LET worktree_path == get_worktree_path(b, cwd)
        out == Outcome("destroy", b, force, fault, 1, "none")
        parent_branch == resolve_parent(b)
        found == [out EXCEPT !.path = worktree_path, !.parent = parent_branch]
        s1 == RemoveWorktreeStep(Repo, worktree_path)
        forced == DeleteForced(force)
        del == IF forced THEN "-D" ELSE "-d"
        s2 == DeleteBranchStep(s1, b)
    IN  IF worktree_path = None
        THEN [hit |-> fault = "none", repo |-> Repo, out |-> [out EXCEPT !.err = "NotFound"]]
        ELSE IF fault = "status" /\ worktree_path \notin dirty
        THEN [hit |-> FALSE, repo |-> Repo, out |-> out]
        ELSE IF fault = "merged" /\ (\/ force
                                     \/ Falsy(parent_branch)
                                     \/ MergedLines(parent_branch[1], worktree_path) = {})
        THEN [hit |-> FALSE, repo |-> Repo, out |-> out]
        ELSE IF has_unstaged_changes(worktree_path, fault = "status")
        THEN [hit |-> fault = "none", repo |-> Repo,
              out |-> [out EXCEPT !.err = "Dirty", !.path = worktree_path]]
        ELSE IF Falsy(parent_branch)
        THEN [hit |-> fault \in {"none", "status"}, repo |-> Repo,
              out |-> [out EXCEPT !.err = "UnknownParent", !.path = worktree_path]]
        ELSE IF /\ ~force
                /\ ~is_branch_merged(b, parent_branch[1], cwd, fault = "merged")
                /\ ~is_branch_tip_pushed(b)
        THEN [hit |-> fault \in {"none", "status", "merged"}, repo |-> Repo,
              out |-> [found EXCEPT !.err = "Unsafe"]]
        ELSE IF fault = "worktree_remove" \/ ~CanWorktreeRemove(Repo, worktree_path)
        THEN [hit |-> fault \in {"none", "status", "merged", "worktree_remove"},
              repo |-> Repo, out |-> [found EXCEPT !.err = "Backend"]]
        ELSE IF fault = "branch_delete" \/ ~CanBranchDelete(s1, b, get_git_root(cwd), forced)
        THEN [hit |-> fault \in {"none", "status", "merged", "branch_delete"},
              repo |-> s1, out |-> [found EXCEPT !.err = "Backend", !.del = del]]
        ELSE [hit |-> fault \in {"none", "status", "merged"},
              repo |-> s2, out |-> [found EXCEPT !.exit = 0, !.del = del]]

\* The shell is at its prompt: the last invocation's output has been read.
AtPrompt == last.op = "env"

\* A backend failure is an event.
Charge(fault) ==
    IF fault = "none" THEN UNCHANGED events
    ELSE events < MaxEvents /\ events' = events + 1

Install(r) ==
    /\ branches' = r.branches
    /\ hist' = r.hist
    /\ remote' = r.remote
    /\ upstream' = r.upstream
    /\ desc' = r.desc
    /\ mainHead' = r.mainHead
    /\ linked' = r.linked
    /\ dirty' = r.dirty

create_worktree(b, answer, fault) ==
    /\ AtPrompt
    /\ Charge(fault)
    /\ \E r \in {CreateRun(b, answer, fault)} :
        /\ r.hit
        /\ Install(r.repo)
        /\ cwd' = r.cwd
        /\ last' = r.out

attach_worktree(b) ==
    /\ AtPrompt
    /\ \E r \in {AttachRun(b)} :
        /\ Install(r.repo)
        /\ cwd' = r.cwd
        /\ last' = r.out
        /\ UNCHANGED events

destroy_worktree(b, force, fault) ==
    /\ AtPrompt
    /\ Charge(fault)
    /\ \E r \in {DestroyRun(b, force, fault)} :
        /\ r.hit
        /\ Install(r.repo)
        /\ cwd' = cwd
        /\ last' = r.out

\* ------------------------------------------------------ interactive modes
\* The entries of a selection menu: the listed branch names, then "Cancel".
MenuOptions(worktrees) ==
    [i \in 1..Len(worktrees) |-> worktrees[i][1]] \o <<"Cancel">>

\* TerminalMenu.show(): an index from 0, or -1 for None when the menu is dismissed.
MenuAnswers(menu_options) == -1..(Len(menu_options) - 1)

\* "menu_entry_index is None or menu_entry_index == len(menu_options) - 1"
MenuCancelled(menu_entry_index, menu_options) ==
    menu_entry_index = -1 \/ menu_entry_index = Len(menu_options) - 1

\* A selection that takes the entry after the selected one.
SelectedBranchNext(worktrees, menu_entry_index) ==
    worktrees[((menu_entry_index + 1) % Len(worktrees)) + 1][1]

\* worktrees[menu_entry_index][0]
SelectedBranch(worktrees, menu_entry_index) == worktrees[menu_entry_index + 1][1]

\* attach_worktree_interactive
AttachInteractiveRun(worktrees, menu_entry_index) ==
    LET menu_options == MenuOptions(worktrees)
        out == Outcome("attach_interactive", "main", FALSE, "none", 0, "none")
    IN  IF worktrees = <<>>
        THEN [repo |-> Repo, cwd |-> cwd, out |-> [out EXCEPT !.menu = "empty"]]
        ELSE IF MenuCancelled(menu_entry_index, menu_options)
        THEN [repo |-> Repo, cwd |-> cwd,
              out |-> [out EXCEPT !.menu = "cancel", !.index = menu_entry_index,
                                  !.err = "Cancelled"]]
        ELSE LET selected_branch == SelectedBranch(worktrees, menu_entry_index)
                 r == AttachRun(selected_branch)
             IN  [repo |-> r.repo, cwd |-> r.cwd,
                  out |-> [r.out EXCEPT !.op = "attach_interactive", !.menu = "picked",
                                        !.index = menu_entry_index]]

\* The operator's answer to the menu is an input of the invocation.
attach_worktree_interactive ==
    /\ AtPrompt
    /\ \E worktrees \in {get_all_worktrees(cwd)} :
       \E menu_entry_index \in MenuAnswers(MenuOptions(worktrees)) :
       \E r \in {AttachInteractiveRun(worktrees, menu_entry_index)} :
        /\ Install(r.repo)
        /\ cwd' = r.cwd
        /\ last' = r.out
        /\ UNCHANGED events

\* The confirmation menu's answers: 0 "Yes, destroy it", 1 "No, cancel", -1 None.
ConfirmAnswers == {0, 1, -1}

\* A confirmation that goes ahead unless the operator answers no.
ConfirmedUnlessNo(confirm_index) == confirm_index # 1

\* "if confirm_index == 0"
Confirmed(confirm_index) == confirm_index = 0

\* What the operator answered, as the outcome records it.
ConfirmAnswer(confirm_index) ==
    IF confirm_index = 0 THEN "yes" ELSE IF confirm_index = 1 THEN "no" ELSE "dismiss"

\* The force flag destroy_worktree_interactive hands on (src line 458).
PassedForce(force) == force

\* destroy_worktree_interactive
DestroyInteractiveRun(worktrees, force, menu_entry_index, confirm_index, fault) ==
    LET menu_options == MenuOptions(worktrees)
        out == [Outcome("destroy_interactive", "main", force, fault, 0, "none")
                    EXCEPT !.index = menu_entry_index]
    IN  IF worktrees = <<>>
        THEN [hit |-> fault = "none" /\ menu_entry_index = -1 /\ confirm_index = -1,
              repo |-> Repo, out |-> [out EXCEPT !.menu = "empty", !.index = -1]]
        ELSE IF MenuCancelled(menu_entry_index, menu_options)
        THEN [hit |-> fault = "none" /\ confirm_index = -1, repo |-> Repo,
              out |-> [out EXCEPT !.menu = "cancel", !.err = "Cancelled"]]
        ELSE LET selected_branch == SelectedBranch(worktrees, menu_entry_index)
             IN  IF Confirmed(confirm_index)
                 THEN \* destroy_worktree(selected_branch, force=force), run once
                      CHOOSE res \in
                        {[hit |-> r.hit, repo |-> r.repo,
                          out |-> [r.out EXCEPT !.op = "destroy_interactive",
                                                !.menu = "picked",
                                                !.index = menu_entry_index,
                                                !.force = force,
                                                !.confirm = ConfirmAnswer(confirm_index)]] :
                         r \in {DestroyRun(selected_branch, PassedForce(force), fault)}} :
                        TRUE
                 ELSE [hit |-> fault = "none", repo |-> Repo,
                       out |-> [out EXCEPT !.branch = selected_branch,
                                           !.menu = "picked", !.err = "Cancelled",
                                           !.confirm = ConfirmAnswer(confirm_index)]]

\* The operator's answers to the two menus are inputs of the invocation; a
\* backend failure can only be met once the confirmation is answered yes.
destroy_worktree_interactive(force) ==
    /\ AtPrompt
    /\ \E worktrees \in {get_all_worktrees(cwd)} :
       \E menu_entry_index \in MenuAnswers(MenuOptions(worktrees)),
          confirm_index \in ConfirmAnswers :
       \E fault \in IF confirm_index = 0 THEN DestroyFaults ELSE {"none"} :
        /\ Charge(fault)
        /\ \E r \in {DestroyInteractiveRun(worktrees, force, menu_entry_index,
                                          confirm_index, fault)} :
            /\ r.hit
            /\ Install(r.repo)
            /\ cwd' = cwd
            /\ last' = r.out

\* ------------------------------------------------- the operator's own steps
Idle == [Outcome("env", "main", FALSE, "none", 0, "none") EXCEPT !.at = RepoRoot]

ByHand ==
    /\ AtPrompt
    /\ events < MaxEvents
    /\ events' = events + 1
    /\ last' = Idle

UsedCommits ==
    UNION {hist[b] : b \in Names}
    \cup UNION {remote[b][1] : b \in {n \in RemoteNames : remote[n] # <<>>}}

\* git commit in the linked worktree of b
EnvCommit(b) ==
    /\ b \in {w.branch : w \in Range(linked)}
    /\ Commits \ UsedCommits # {}
    /\ LET c == CHOOSE x \in Commits \ UsedCommits : \A y \in Commits \ UsedCommits : x <= y
       IN  hist' = [hist EXCEPT ![b] = @ \cup {c}]
    /\ ByHand
    /\ UNCHANGED <<branches, remote, upstream, desc, mainHead, linked, dirty, cwd>>

\* git merge b, in the main repository, on p
EnvMerge(b, p) ==
    /\ b \in branches
    /\ p = mainHead
    /\ ~(hist[b] \subseteq hist[p])
    /\ hist' = [hist EXCEPT ![p] = @ \cup hist[b]]
    /\ ByHand
    /\ UNCHANGED <<branches, remote, upstream, desc, mainHead, linked, dirty, cwd>>

\* git push [-u] origin b
EnvPush(b, u) ==
    /\ b \in {w.branch : w \in Range(linked)}
    /\ remote' = [remote EXCEPT ![b] = <<hist[b]>>]
    /\ upstream' = IF u THEN upstream \cup {b} ELSE upstream
    /\ ByHand
    /\ UNCHANGED <<branches, hist, desc, mainHead, linked, dirty, cwd>>

\* an edit in a linked worktree, or its commit or discard
EnvEdit(path) ==
    /\ path \in LinkedPaths
    /\ dirty' = IF path \in dirty THEN dirty \ {path} ELSE dirty \cup {path}
    /\ ByHand
    /\ UNCHANGED <<branches, hist, remote, upstream, desc, mainHead, linked, cwd>>

\* Leave the shells the tool started: back to the main repository.  (The way into
\* a linked worktree is attach or create.)
EnvChdir ==
    /\ cwd # RepoRoot
    /\ cwd' = RepoRoot
    /\ ByHand
    /\ UNCHANGED gitvars

\* git branch --edit-description, git config --unset
Descriptions == { <<>>, << <<>> >>, << <<"note">> >> }

EditDescription(b, d) ==
    /\ AtPrompt
    /\ desc' = [desc EXCEPT ![b] = d]
    /\ last' = Idle
    /\ UNCHANGED <<branches, hist, remote, upstream, mainHead, linked, dirty, cwd, events>>

\* The operator has read the invocation's output and is back at the prompt.
Prompt ==
    /\ ~AtPrompt
    /\ last' = Idle
    /\ UNCHANGED <<gitvars, cwd, events>>

\* ------------------------------------------------------------ specification
Init ==
    /\ branches = {"main"}
    /\ hist = [b \in Names |-> {}]
    /\ remote = [n \in RemoteNames |-> <<>>]
    /\ upstream = {}
    /\ desc = [b \in Names |-> <<>>]
    /\ mainHead = "main"
    /\ linked = <<>>
    /\ dirty = {}
    /\ cwd = RepoRoot
    /\ events = 0
    /\ last = Idle

Next ==
    \/ \E b \in CreateNames, answer \in {"y", "n"}, fault \in CreateFaults :
          create_worktree(b, answer, fault)
    \/ \E b \in Names : attach_worktree(b)
    \/ \E b \in Names, force \in BOOLEAN, fault \in DestroyFaults : destroy_worktree(b, force, fault)
    \/ \E b \in Names : EnvCommit(b)
    \/ \E b \in Names, p \in Names : EnvMerge(b, p)
    \/ \E b \in Names, u \in BOOLEAN : EnvPush(b, u)
    \/ \E path \in LinkedPaths : EnvEdit(path)
    \/ EnvChdir
    \/ Prompt

Spec == Init /\ [][Next]_vars

\* ------------------------------------------ repositories not made by the tool
\* git branch b, in the main repository: a branch the tool did not create.
EnvBranch(b) ==
    /\ b \notin branches
    /\ branches' = branches \cup {b}
    /\ hist' = [hist EXCEPT ![b] = hist[mainHead]]
    /\ ByHand
    /\ UNCHANGED <<remote, upstream, desc, mainHead, linked, dirty, cwd>>

\* git branch --edit-description, git config --unset, on a branch with a worktree
EnvDescribe(b, d) ==
    /\ b \in {w.branch : w \in Range(linked)}
    /\ desc[b] # d
    /\ desc' = [desc EXCEPT ![b] = d]
    /\ ByHand
    /\ UNCHANGED <<branches, hist, remote, upstream, mainHead, linked, dirty, cwd>>

\* The repository's first branch need not be one of the usual names, and origin
\* may hold a branch somebody else pushed.
OperatorInit ==
    /\ \E trunk \in {"main", "fy"} :
          /\ branches = {trunk}
          /\ mainHead = trunk
          /\ \E others \in IF trunk = "main" THEN {<<>>} ELSE {<<>>, << {} >>} :
                remote = [n \in RemoteNames |-> IF n = "rel/fy" THEN others ELSE <<>>]
    /\ hist = [b \in Names |-> {}]
    /\ upstream = {}
    /\ desc = [b \in Names |-> <<>>]
    /\ linked = <<>>
    /\ dirty = {}
    /\ cwd = RepoRoot
    /\ events = 0
    /\ last = Idle

OperatorNext ==
    \/ \E b \in Names : create_worktree(b, "n", "none")
    \/ \E b \in Names : attach_worktree(b)
    \/ \E b \in Names, force \in BOOLEAN : destroy_worktree(b, force, "none")
    \/ \E b \in Names : EnvBranch(b)
    \/ \E b \in Names, d \in {<<>>, << <<"note">> >>} : EnvDescribe(b, d)
    \/ \E b \in Names : EnvCommit(b)
    \/ \E b \in Names : EnvPush(b, FALSE)
    \/ \E path \in LinkedPaths : EnvEdit(path)
    \/ EnvChdir
    \/ Prompt

OperatorSpec == OperatorInit /\ [][OperatorNext]_vars

\* ---------------------------------------------------- the interactive modes
\* The tool used through its menus: create, then attach and destroy without a
\* branch name.
InteractiveNext ==
    \/ \E b \in CreateNames, answer \in {"y", "n"} : create_worktree(b, answer, "none")
    \/ attach_worktree_interactive
    \/ \E force \in BOOLEAN : destroy_worktree_interactive(force)
    \/ \E b \in Names : EnvCommit(b)
    \/ \E b \in Names, p \in Names : EnvMerge(b, p)
    \/ \E b \in Names, u \in BOOLEAN : EnvPush(b, u)
    \/ \E path \in LinkedPaths : EnvEdit(path)
    \/ EnvChdir
    \/ Prompt

InteractiveSpec == Init /\ [][InteractiveNext]_vars

\* ------------------------------------------------- the lineage store alone
\* The names a parent can have: a branch, or HEAD when the checkout is detached.
ParentNames == Names \cup {"HEAD"}

\* recordParent: set_branch_parent on the repository
RecordParent(b, p) ==
    /\ AtPrompt
    /\ Install(set_branch_parent(Repo, b, p))
    /\ last' = [Outcome("recordParent", b, FALSE, "none", 0, "none") EXCEPT !.parent = <<p>>]
    /\ UNCHANGED <<cwd, events>>

\* readParent: get_branch_parent
ReadParent(b) ==
    /\ AtPrompt
    /\ last' = [Outcome("readParent", b, FALSE, "none", 0, "none")
                    EXCEPT !.parent = get_branch_parent(b)]
    /\ UNCHANGED <<gitvars, cwd, events>>

LineageNext ==
    \/ \E b \in Names, p \in ParentNames : RecordParent(b, p)
    \/ \E b \in Names : ReadParent(b)
    \/ \E b \in Names, d \in Descriptions : EditDescription(b, d)
    \/ Prompt

LineageSpec == Init /\ [][LineageNext]_vars

\* ------------------------------------------------------------------ claims
\* What is true of the repository, whatever the tool's queries answer.
HasLinked(b) == \E w \in Range(linked) : w.branch = b

DirtyLinked(b) == \E w \in Range(linked) : w.branch = b /\ w.path \in dirty

CleanLinked(b) == HasLinked(b) /\ ~DirtyLinked(b)

LinkedListing == [i \in 1..Len(linked) |-> <<linked[i].branch, linked[i].path>>]

\* b's history is fully reachable from p's tip.
Merged(b, p) == b \in branches /\ p \in branches /\ hist[b] \subseteq hist[p]

Pushed(b) == b \in branches /\ remote[b] = <<hist[b]>>

\* The step is an invocation of op on b that meets no backend failure.
Ran(op, b) ==
    /\ AtPrompt
    /\ last'.op = op
    /\ last'.branch = b
    /\ last'.fault = "none"

\* C1: destroy(b, force) on a branch whose worktree has uncommitted changes always
\* fails with the dirty-worktree error, for either force, and b's worktree and
\* branch b are still there afterward.
C1_DirtyDestroyRefused ==
    [][\A b \in Names :
          (Ran("destroy", b) /\ DirtyLinked(b))
          => /\ last'.exit = 1
             /\ last'.err = "Dirty"
             /\ HasLinked(b)'
             /\ b \in branches']_vars

\* C2: with a clean worktree and a resolvable parent, destroy(b, force=false) of a
\* branch neither merged into the resolved parent nor pushed fails with the
\* unsafe-destroy error and removes nothing; with force=true it succeeds and
\* removes the worktree and the branch.
C2_UnsafeUnlessForced ==
    [][\A b \in Names :
          (/\ Ran("destroy", b)
           /\ CleanLinked(b)
           /\ ~Falsy(resolve_parent(b))
           /\ ~Merged(b, resolve_parent(b)[1])
           /\ ~Pushed(b))
          => IF last'.force
             THEN last'.exit = 0 /\ ~HasLinked(b)' /\ b \notin branches'
             ELSE last'.exit = 1 /\ last'.err = "Unsafe" /\ UNCHANGED gitvars]_vars

\* C3: whenever destroy(b, force) reports success, no listing of the worktrees,
\* from any checkout, has an entry for b, no worktree is bound to b and b does
\* not exist.
C3_DestroyedIsGone ==
    (last.op = "destroy" /\ last.exit = 0)
    => /\ ~branch_exists(last.branch)
       /\ ~HasLinked(last.branch)
       /\ \A dir \in CheckoutRoots :
             /\ \A e \in Range(get_all_worktrees(dir)) : e[1] # last.branch
             /\ get_worktree_path(last.branch, dir) = None

C3_Witness ==
    /\ last.op = "destroy"
    /\ last.exit = 0
    /\ linked # <<>>

\* C4: create(b) when a worktree for b exists prompts for attach-or-cancel, and when
\* the operator declines nothing changes: worktrees, branches, lineage records,
\* checkouts.
C4_ExistingWorktreePrompts ==
    [][\A b \in Names :
          (Ran("create", b) /\ HasLinked(b))
          => /\ last'.prompted
             /\ (last'.err = "Cancelled" => UNCHANGED <<gitvars, cwd>>)]_vars

\* C5 as stated: create exits with status 1 when the operator declines to attach.
C5_DeclineExitsOne ==
    (last.op = "create" /\ last.prompted /\ last.err = "Cancelled") => last.exit = 1

\* C5 amended: create exits with status 0 when the operator declines to attach to
\* a worktree that exists, and with status 1 on a backend failure.
C5_DeclineExitsZero ==
    /\ (last.op = "create" /\ last.prompted /\ last.err = "Cancelled") => last.exit = 0
    /\ (last.op = "create" /\ last.err = "Backend") => last.exit = 1

C5_Witness ==
    /\ last.op = "create"
    /\ last.prompted
    /\ last.err = "Cancelled"
    /\ HasLinked(last.branch)

\* The directory named b in the container <repoName>-worktrees next to the
\* repository root.
SiblingDir(b) == Join(Join(Dirname(RepoRoot), Basename(RepoRoot) \o "-worktrees"), b)

\* C6: after create(b) makes a worktree for a branch that had none, the path the
\* tool finds for b (from where create was invoked) is the directory named b in
\* the sibling container <repoName>-worktrees of the repository root.
C6_CreatedAtSiblingDir ==
    (last.op = "create" /\ last.exit = 0 /\ ~last.prompted)
    => /\ get_worktree_path(last.branch, last.at) = SiblingDir(last.branch)
       /\ last.path = SiblingDir(last.branch)

\* C7: recordParent(b, p) then readParent(b) gives exactly p, whatever was
\* recorded before; readParent of a missing, empty or unprefixed record gives
\* absent, without an error.
C7_LineageRoundTrip ==
    /\ \A p \in ParentNames : ParseParent(<<ParentDescription(p)>>) = <<p>>
    /\ last.op = "recordParent" => get_branch_parent(last.branch) = last.parent
    /\ (last.op = "readParent" /\ desc[last.branch] \in Descriptions)
       => (last.parent = <<>> /\ last.exit = 0)
    /\ (last.op = "readParent" /\ desc[last.branch] \notin Descriptions)
       => (last.parent # <<>> /\ desc[last.branch] = <<ParentDescription(last.parent[1])>>)

C7_Witness ==
    /\ last.op = "readParent"
    /\ last.parent = <<"fx">>
    /\ desc["fy"] = << <<"note">> >>

\* C8: create(b) from p on a b that does not exist creates the branch, records p
\* and creates the worktree; once b is merged into p and its worktree is clean,
\* destroy(b, force=false) succeeds, removes the worktree and deletes the branch
\* with the non-forced delete; the forced delete is used iff force was set.
C8_Lifecycle ==
    [][\A b \in Names :
          /\ (Ran("create", b) /\ ~branch_exists(b))
             => /\ b \in branches'
                /\ get_branch_parent(b)' = <<get_current_branch(cwd)>>
                /\ HasLinked(b)'
          /\ (/\ Ran("destroy", b)
              /\ ~last'.force
              /\ CleanLinked(b)
              /\ ~Falsy(get_branch_parent(b))
              /\ Merged(b, get_branch_parent(b)[1]))
             => /\ last'.exit = 0
                /\ last'.del = "-d"
                /\ ~HasLinked(b)'
                /\ b \notin branches'
          /\ (Ran("destroy", b) /\ last'.del # "none")
             => (last'.del = "-D" <=> last'.force)]_vars

\* C8, from outside b's own worktree: the same lifecycle, for the invocations of
\* destroy that find b's worktree.
C8_LifecycleFromElsewhere ==
    [][\A b \in Names :
          (/\ Ran("destroy", b)
           /\ ~last'.force
           /\ get_worktree_path(b, cwd) # None
           /\ CleanLinked(b)
           /\ ~Falsy(get_branch_parent(b))
           /\ Merged(b, get_branch_parent(b)[1]))
          => /\ last'.exit = 0
             /\ last'.del = "-d"
             /\ ~HasLinked(b)'
             /\ b \notin branches']_vars

\* C9: from every place of invocation, the listing and the lookup leave out the
\* main repository's entry and only that one: every linked worktree bound to a
\* branch is listed.
C9_MainExcludedOnly ==
    /\ get_all_worktrees(cwd) = LinkedListing
    /\ \A b \in Names :
          /\ get_worktree_path(b, cwd) # RepoRoot
          /\ \A w \in Range(linked) : w.branch = b => get_worktree_path(b, cwd) # None

\* C10: attach(b) and destroy(b, force) when no worktree is bound to b fail with
\* the not-found error and change nothing.
C10_NoWorktreeNotFound ==
    [][\A b \in Names :
          ((Ran("attach", b) \/ Ran("destroy", b)) /\ ~HasLinked(b))
          => /\ last'.exit = 1
             /\ last'.err = "NotFound"
             /\ UNCHANGED <<gitvars, cwd>>]_vars

\* C11: interactive attach with no worktree at all shows no selection menu; with
\* a menu shown, the cancel entry and a dismissed menu change nothing, and any
\* other selection attaches to the branch at the selected index of the listing:
\* the shell ends in that entry's directory.
C11_InteractiveAttach ==
    [][(AtPrompt /\ last'.op = "attach_interactive")
       => \A worktrees \in {get_all_worktrees(cwd)} :
          /\ (worktrees = <<>>) <=> (last'.menu = "empty")
          /\ linked = <<>> => last'.menu = "empty"
          /\ last'.menu \in {"empty", "cancel"}
             => (UNCHANGED <<gitvars, cwd>> /\ last'.exit = 0)
          /\ last'.menu = "cancel"
             => last'.index \in {-1, Len(worktrees)}
          /\ last'.menu = "picked"
             => /\ last'.index \in 0..(Len(worktrees) - 1)
                /\ last'.branch = worktrees[last'.index + 1][1]
                /\ cwd' = worktrees[last'.index + 1][2]
                /\ last'.exit = 0
                /\ UNCHANGED gitvars]_vars

C11_Witness ==
    /\ last.op = "attach_interactive"
    /\ last.menu = "picked"
    /\ last.index = 1
    /\ last.exit = 0
    /\ cwd = last.path
    /\ cwd # last.at

\* C12: interactive destroy runs destroy(selected, force) only after a worktree
\* was selected and the confirmation answered yes, with the force flag of the
\* command line, and does what the direct destroy would do; cancelling or
\* dismissing the selection or the confirmation changes nothing.
C12_InteractiveDestroy ==
    [][(AtPrompt /\ last'.op = "destroy_interactive")
       => \A worktrees \in {get_all_worktrees(cwd)} :
          /\ (last'.menu = "picked" /\ last'.confirm = "yes")
             => /\ last'.index \in 0..(Len(worktrees) - 1)
                /\ last'.branch = worktrees[last'.index + 1][1]
                /\ \A r \in {DestroyRun(last'.branch, last'.force, last'.fault)} :
                       /\ Repo' = r.repo
                       /\ last'.exit = r.out.exit
                       /\ last'.err = r.out.err
                       /\ last'.del = r.out.del
          /\ ~(last'.menu = "picked" /\ last'.confirm = "yes")
             => (UNCHANGED <<gitvars, cwd>> /\ last'.exit = 0)]_vars

C12_Witness ==
    /\ last.op = "destroy_interactive"
    /\ last.menu = "picked"
    /\ last.confirm = "yes"
    /\ last.force
    /\ last.exit = 0
    /\ last.del = "-D"
    /\ last.branch \notin branches

\* C13: however create(b) on a branch that does not exist ends, completion or an
\* abort on a backend error at any of its steps, the checkout it was invoked in
\* and the main checkout are on the same branch as at invocation.
C13_CheckoutNotSwitched ==
    [][\A b \in Names :
          (AtPrompt /\ last'.op = "create" /\ last'.branch = b /\ b \notin branches)
          => /\ mainHead' = mainHead
             /\ RepoHeadOf(Repo', get_git_root(cwd)) = HeadOf(get_git_root(cwd))]_vars

\* The parent a lineage record names, read off the record itself.
RecordedParent(b) ==
    IF desc[b] # <<>> /\ Len(desc[b][1]) = 2 /\ desc[b][1][1] = Prefix
    THEN <<desc[b][1][2]>> ELSE <<>>

\* The main-branch guess: the first of main, master, develop that exists, else
\* the first remote branch.
MainBranchGuess ==
    IF \E i \in 1..Len(MainCandidates) : MainCandidates[i] \in branches
    THEN <<MainCandidates[CHOOSE i \in 1..Len(MainCandidates) :
                /\ MainCandidates[i] \in branches
                /\ \A j \in 1..(i - 1) : MainCandidates[j] \notin branches]>>
    ELSE IF RemoteBranchLines # <<>> THEN <<Head(RemoteBranchLines)>>
    ELSE <<>>

ExpectedParent(b) == IF RecordedParent(b) # <<>> THEN RecordedParent(b) ELSE MainBranchGuess

\* The step is a destroy of b that found b's worktree and found it clean.
DestroyResolves(b) ==
    /\ Ran("destroy", b)
    /\ get_worktree_path(b, cwd) # None
    /\ get_worktree_path(b, cwd) \notin dirty

\* C14: a destroy that gets as far as the parent works with the recorded lineage
\* if there is one, else with the main-branch guess; when neither gives a parent
\* it fails with the unknown-parent error and changes nothing, with force too.
C14_ParentResolution ==
    [][\A b \in Names :
          DestroyResolves(b)
          => IF ExpectedParent(b) = <<>>
             THEN last'.exit = 1 /\ last'.err = "UnknownParent" /\ UNCHANGED gitvars
             ELSE last'.err # "UnknownParent" /\ last'.parent = ExpectedParent(b)]_vars

\* C14, for an origin whose branch names have no slash: the same resolution.
C14_ParentResolutionPlainNames ==
    [][\A b \in Names :
          (DestroyResolves(b) /\ \A n \in RemoteNames \ Names : remote[n] = <<>>)
          => IF ExpectedParent(b) = <<>>
             THEN last'.exit = 1 /\ last'.err = "UnknownParent" /\ UNCHANGED gitvars
             ELSE last'.err # "UnknownParent" /\ last'.parent = ExpectedParent(b)]_vars

\* A destroy with force that ends with the unknown-parent error.
C14_UnknownParentReached ==
    /\ last.op = "destroy"
    /\ last.force
    /\ last.err = "UnknownParent"

\* C15: destroy removes the worktree, then deletes the branch, and rolls nothing
\* back: no branch goes unless the worktree went in the same run; when the
\* removal fails nothing changes; when the deletion fails after the removal the
\* worktree stays removed and the branch and its lineage record survive.
C15_OrderedNoRollback ==
    [][(AtPrompt /\ last'.op = "destroy")
       => \A b \in {last'.branch} :
          /\ branches' # branches
             => /\ branches' = branches \ {b}
                /\ last'.path \in LinkedPaths \ LinkedPaths'
                /\ last'.exit = 0
          /\ (last'.err = "Backend" /\ last'.del = "none") => UNCHANGED gitvars
          /\ (last'.err = "Backend" /\ last'.del # "none")
             => /\ last'.exit = 1
                /\ LinkedPaths' = LinkedPaths \ {last'.path}
                /\ last'.path \in LinkedPaths
                /\ b \in branches'
                /\ desc'[b] = desc[b]
                /\ hist'[b] = hist[b]]_vars

C15_Witness ==
    /\ last.op = "destroy"
    /\ last.err = "Backend"
    /\ last.del = "-d"
    /\ last.fault = "none"
    /\ last.branch \in branches
    /\ ~HasLinked(last.branch)
    /\ desc[last.branch] # <<>>

\* C16: a destroy whose working-tree status query or merged-branches query fails
\* aborts with the fatal backend error before any mutation: no worktree is
\* removed and no branch is deleted.
C16_QueryFailureAborts ==
    [][(AtPrompt /\ last'.op = "destroy" /\ last'.fault \in {"status", "merged"})
       => /\ last'.exit = 1
          /\ last'.err = "Backend"
          /\ UNCHANGED gitvars]_vars

\* C16, the mutation alone: a destroy whose status query or merged-branches query
\* fails removes no worktree and deletes no branch.
C16_QueryFailureNoMutation ==
    [][(AtPrompt /\ last'.op = "destroy" /\ last'.fault \in {"status", "merged"})
       => UNCHANGED <<branches, linked>>]_vars

\* No checkout is on another branch after the step.
ChecksOutSame == \A p \in CheckoutRoots : RepoHeadOf(Repo', p) = HeadOf(p)

\* C17: a lineage record is written only when create(b) itself creates b:
\* create(b) on a branch that exists and has no worktree creates no branch,
\* switches no checkout and leaves every lineage record as it was, present or
\* absent; whatever create writes is the record of the branch it created; attach
\* writes nothing.
C17_LineageOnlyAtCreation ==
    [][/\ \A b \in Names :
            (AtPrompt /\ last'.op = "create" /\ last'.branch = b)
            => /\ (b \in branches /\ ~HasLinked(b))
                  => (desc' = desc /\ branches' = branches /\ ChecksOutSame
                      /\ ~last'.created)
               /\ desc' # desc
                  => /\ b \notin branches
                     /\ b \in branches'
                     /\ \A c \in Names \ {b} : desc'[c] = desc[c]
       /\ (AtPrompt /\ last'.op = "attach") => UNCHANGED gitvars]_vars

C17_Witness ==
    /\ last.op = "create"
    /\ last.exit = 0
    /\ ~last.created
    /\ ~last.prompted
    /\ HasLinked(last.branch)
    /\ desc[last.branch] = <<>>

\* create(b) made a worktree for a branch that existed with a lineage record.
C17_WitnessRecorded ==
    /\ last.op = "create"
    /\ last.exit = 0
    /\ ~last.created
    /\ ~last.prompted
    /\ HasLinked(last.branch)
    /\ RecordedParent(last.branch) # <<>>

\* b has a clean worktree, is not merged into the parent destroy resolves, and
\* its tip is the tip origin has for it.
PushedUnmerged(b) ==
    /\ CleanLinked(b)
    /\ ~Falsy(resolve_parent(b))
    /\ ~Merged(b, resolve_parent(b)[1])
    /\ Pushed(b)

\* C18: destroy(b, force=false) of a clean, unmerged branch whose tip is pushed
\* passes the safety check and completes: the worktree is removed and the branch
\* deleted by the non-forced delete; no branch is left without its worktree.
C18_PushedDestroyCompletes ==
    [][\A b \in Names :
          (Ran("destroy", b) /\ ~last'.force /\ PushedUnmerged(b))
          => /\ last'.exit = 0
             /\ last'.del = "-d"
             /\ ~HasLinked(b)'
             /\ b \notin branches']_vars

\* C18, for the invocations run in the main checkout: the same completion.
C18_PushedDestroyCompletesFromRoot ==
    [][\A b \in Names :
          (/\ Ran("destroy", b) /\ ~last'.force /\ PushedUnmerged(b)
           /\ cwd = RepoRoot)
          => /\ last'.exit = 0
             /\ last'.del = "-d"
             /\ ~HasLinked(b)'
             /\ b \notin branches']_vars

\* C19: after any sequence of invocations, declined and aborted ones included,
\* from any place, every branch has at most one worktree bound to it, and no
\* listing of the tool has two entries for a branch.
C19_OneWorktreePerBranch ==
    /\ \A i, j \in 1..Len(linked) : linked[i].branch = linked[j].branch => i = j
    /\ \A dir \in CheckoutRoots :
          \A worktrees \in {get_all_worktrees(dir)} :
             \A i, j \in 1..Len(worktrees) :
                worktrees[i][1] = worktrees[j][1] => i = j

\* create(b), run where the tool does not see b's worktree, asked git for a
\* second worktree of b and was refused.
C19_Witness ==
    /\ last.op = "create"
    /\ ~last.prompted
    /\ last.err = "Backend"
    /\ last.fault = "none"
    /\ HasLinked(last.branch)
    /\ Len(linked) = 2

\* C20: destroy(b, force), however it ends, changes nothing about another
\* branch c: its existence, its commits, its worktree and that worktree's path,
\* its lineage record, also when that record names b as the parent.
C20_OtherBranchesUntouched ==
    [][(AtPrompt /\ last'.op = "destroy")
       => \A c \in Names \ {last'.branch} :
             /\ (c \in branches') <=> (c \in branches)
             /\ hist'[c] = hist[c]
             /\ desc'[c] = desc[c]
             /\ {w \in Range(linked') : w.branch = c} = {w \in Range(linked) : w.branch = c}
             /\ (mainHead' = c) <=> (mainHead = c)]_vars

C20_Witness ==
    /\ last.op = "destroy"
    /\ last.exit = 0
    /\ last.branch \notin branches
    /\ \E c \in Names \ {last.branch} :
          /\ RecordedParent(c) = <<last.branch>>
          /\ HasLinked(c)

====
